---- MODULE Spec2Model ----
(***************************************************************************)
(* Model of the api-python gateway: configuration loading and backend type *)
(* resolution (src/config.py, src/db.py), the Diagnostic Log               *)
(* (src/db_logger.py), the availability gate and probes (src/app.py), the  *)
(* item routes (src/routes.py) and the three backend adapters (src/db.py). *)
(*                                                                         *)
(* Python strings that the code inspects character by character (DB_TYPE,  *)
(* DB_PORT) are sequences of one-character strings.  An optional string    *)
(* (os.environ.get) is a record [set, s]: Absent is Python's None.         *)
(***************************************************************************)
EXTENDS Naturals, Integers, Sequences, FiniteSets, TLC

VARIABLES
    environ,          \* os.environ as read by config.py (never changes)
    config_module,    \* the module-level names of src/config.py
    started,          \* main() has run (app.run is serving)
    clock,            \* logical time: number of add_log calls so far
    _logs,            \* db_logger._logs
    appended,         \* every entry ever passed to add_log, in call order
    _ping_ok_logged,  \* db._ping_ok_logged
    _pg_pool,         \* db._pg_pool: FALSE (None) or TRUE (created)
    _mongo_db,        \* db._mongo_db: FALSE (None) or TRUE (created)
    dbUp,             \* the backend server answers
    items,            \* the rows/documents of the backend's items container
    items_exists,     \* the relational items table exists
    serial,           \* the relational backend's auto-increment counter
    returned,         \* Items that db.create_item has returned so far
    nreq,             \* requests / calls started so far
    conns,            \* relational connections in use: used and idle ones of
                      \* db._pg_pool, open ones of _mysql_get_connection
    th                \* per request-handling thread: its position and locals

vars == <<environ, config_module, started, clock, _logs, appended,
          _ping_ok_logged, _pg_pool, _mongo_db, dbUp, items, items_exists,
          serial, returned, nreq, conns, th>>

-----------------------------------------------------------------------------
(* Bounds of the model *)

\* requests served in one run of Spec
MaxRequests == 2
\* calls of the db functions in one run of SpecDb
MaxCalls == 2
\* add_log calls in one run of SpecLog
MaxAppends == 102
\* the first MaxVaried calls of SpecLog choose their message freely
MaxVaried == 3

\* the request-handling threads whose interleavings are explored (the server
\* starts a thread per request; two run at a time here)
Threads == {1, 2}

(* Program constants *)

\* db_logger.MAX_LOGS
MAX_LOGS == 100


-----------------------------------------------------------------------------
(* Python strings *)

Absent == [set |-> FALSE, s |-> <<>>]
Str(s) == [set |-> TRUE, s |-> s]

\* Python truthiness of an Optional[str]: None and "" are falsy
Truthy(v) == v.set /\ v.s # <<>>

\* (v or "")
OrEmpty(v) == IF Truthy(v) THEN v.s ELSE <<>>

\* (s or None)
OrNone(s) == IF s # <<>> THEN Str(s) ELSE Absent

Whitespace == {" ", "\t", "\n"}

RECURSIVE lstrip(_)
lstrip(s) ==
    IF s # <<>> /\ Head(s) \in Whitespace THEN lstrip(Tail(s)) ELSE s

RECURSIVE rstrip(_)
rstrip(s) ==
    IF s # <<>> /\ s[Len(s)] \in Whitespace
    THEN rstrip(SubSeq(s, 1, Len(s) - 1))
    ELSE s

\* str.strip()
strip(s) == rstrip(lstrip(s))

LowerLetters == <<"a","b","c","d","e","f","g","h","i","j","k","l","m",
                  "n","o","p","q","r","s","t","u","v","w","x","y","z">>
UpperLetters == <<"A","B","C","D","E","F","G","H","I","J","K","L","M",
                  "N","O","P","Q","R","S","T","U","V","W","X","Y","Z">>

\* the upper-case letter of each lower-case letter
ToUpper == [c \in {LowerLetters[i] : i \in 1..26} |->
              UpperLetters[CHOOSE i \in 1..26 : LowerLetters[i] = c]]

UpperChar(c) == IF c \in DOMAIN ToUpper THEN ToUpper[c] ELSE c

\* str.upper()
upper(s) == [i \in 1..Len(s) |-> UpperChar(s[i])]

Digits == <<"0","1","2","3","4","5","6","7","8","9">>
\* the value of each decimal digit
ToDigit == [c \in {Digits[i] : i \in 1..10} |->
              (CHOOSE i \in 1..10 : Digits[i] = c) - 1]
IsDigit(c) == c \in DOMAIN ToDigit
DigitVal(c) == ToDigit[c]

\* the digits of an integer literal: digits, single underscores between them
WellFormedDigits(d) ==
    /\ d # <<>>
    /\ \A i \in 1..Len(d) : IsDigit(d[i]) \/ d[i] = "_"
    /\ IsDigit(d[1]) /\ IsDigit(d[Len(d)])
    /\ \A i \in 1..(Len(d) - 1) : ~(d[i] = "_" /\ d[i + 1] = "_")

RECURSIVE DecimalValue(_)
DecimalValue(d) ==
    IF d = <<>> THEN 0
    ELSE LET init == SubSeq(d, 1, Len(d) - 1)
             c    == d[Len(d)]
         IN IF c = "_" THEN DecimalValue(init)
            ELSE 10 * DecimalValue(init) + DigitVal(c)

\* int(s) on a str: [ok |-> FALSE] is ValueError
int(s) ==
    LET t    == strip(s)
        sign == IF t # <<>> /\ t[1] \in {"+", "-"} THEN t[1] ELSE ""
        d    == IF sign = "" THEN t ELSE Tail(t)
    IN IF WellFormedDigits(d)
       THEN [ok |-> TRUE,
             val |-> IF sign = "-" THEN 0 - DecimalValue(d) ELSE DecimalValue(d)]
       ELSE [ok |-> FALSE, val |-> 0]

-----------------------------------------------------------------------------
(* src/config.py *)

\* DB_TYPE = (os.environ.get("DB_TYPE") or "").strip().upper() or None ...
LoadConfig(env) ==
    [DB_TYPE     |-> OrNone(upper(strip(OrEmpty(env.DB_TYPE)))),
     DB_HOST     |-> env.DB_HOST,
     DB_PORT     |-> env.DB_PORT,
     DB_NAME     |-> env.DB_NAME,
     DB_USER     |-> env.DB_USER,
     DB_PASSWORD |-> env.DB_PASSWORD]

-----------------------------------------------------------------------------
(* src/db.py: backend type resolution *)

POSTGRESQL == <<"P","O","S","T","G","R","E","S","Q","L">>
MYSQL      == <<"M","Y","S","Q","L">>
MARIADB    == <<"M","A","R","I","A","D","B">>
MONGODB    == <<"M","O","N","G","O","D","B">>

DB_TYPES == {POSTGRESQL, MYSQL, MARIADB, MONGODB}

PORT_TO_TYPE == (5432 :> POSTGRESQL) @@ (3306 :> MYSQL) @@ (27017 :> MONGODB)

\* get_db_type() without the test "in DB_TYPES": a faulty variant, used to
\* show that C6_TypeResolution depends on that test
get_db_type_unchecked ==
    LET explicit == OrNone(upper(strip(OrEmpty(config_module.DB_TYPE))))
        port     == IF Truthy(config_module.DB_PORT)
                    THEN int(config_module.DB_PORT.s)
                    ELSE [ok |-> FALSE, val |-> 0]
    IN IF Truthy(explicit)
       THEN explicit
       ELSE IF Truthy(config_module.DB_PORT) /\ port.ok
               /\ port.val \in DOMAIN PORT_TO_TYPE
       THEN Str(PORT_TO_TYPE[port.val])
       ELSE Absent

\* db.get_db_type(): Str(type) or Absent (None)
get_db_type ==
    LET explicit == OrNone(upper(strip(OrEmpty(config_module.DB_TYPE))))
        port     == IF Truthy(config_module.DB_PORT)
                    THEN int(config_module.DB_PORT.s)
                    ELSE [ok |-> FALSE, val |-> 0]
    IN IF Truthy(explicit) /\ explicit.s \in DB_TYPES
       THEN explicit
       ELSE IF Truthy(config_module.DB_PORT) /\ ~port.ok
       THEN Absent                                  \* except ValueError
       ELSE IF Truthy(config_module.DB_PORT) /\ port.val \in DOMAIN PORT_TO_TYPE
       THEN Str(PORT_TO_TYPE[port.val])
       ELSE Absent

\* is_configured() without the test of DB_NAME: a faulty variant, used to
\* show that C7_IsConfigured depends on that test
is_configured_without_name ==
    IF ~Truthy(get_db_type) THEN FALSE ELSE Truthy(config_module.DB_HOST)

\* db.is_configured()
is_configured ==
    IF ~Truthy(get_db_type)
    THEN FALSE
    ELSE Truthy(config_module.DB_HOST) /\ Truthy(config_module.DB_NAME)

-----------------------------------------------------------------------------
(* src/db_logger.py *)

\* del l[:n] of Python: a negative n counts from the end of the list
DelPrefix(l, n) ==
    LET stop == IF n >= 0
                THEN (IF n < Len(l) THEN n ELSE Len(l))
                ELSE (IF Len(l) + n > 0 THEN Len(l) + n ELSE 0)
    IN SubSeq(l, stop + 1, Len(l))

\* len(_logs) - MAX_LOGS with one entry too many: a faulty trim, used to show
\* that C3_LogBounded depends on the count add_log deletes
Excess_one_more(logs) == Len(logs) - MAX_LOGS + 1

\* len(_logs) - MAX_LOGS
Excess(logs) == Len(logs) - MAX_LOGS

\* the list after one whole call of add_log: the append, then the trim
add_log(logs, entry) ==
    LET l == Append(logs, entry)
    IN IF Len(l) > MAX_LOGS THEN DelPrefix(l, Excess(l)) ELSE l

\* db_logger.get_logs()
get_logs == _logs

LogEntry(time, m) == [time |-> time, msg |-> m.msg, isError |-> m.isError]

Msg(text, args, is_error) == [msg |-> [text |-> text, args |-> args], isError |-> is_error]

\* the result of calling add_log for each message of ms, in order, from time t0
RECURSIVE LogAll(_, _, _)
LogAll(logs, t0, ms) ==
    IF ms = <<>> THEN logs
    ELSE LogAll(add_log(logs, LogEntry(t0 + 1, Head(ms))), t0 + 1, Tail(ms))

\* add_log called once per message of ms by the running step; each call runs
\* as a whole here, SpecLog below takes a call statement by statement
AddLogs(ms) ==
    /\ _logs' = LogAll(_logs, clock, ms)
    /\ appended' = appended \o [i \in 1..Len(ms) |-> LogEntry(clock + i, ms[i])]
    /\ clock' = clock + Len(ms)

-----------------------------------------------------------------------------
(* Request-handling threads *)

NullTime == [null |-> TRUE, iso |-> 0]
NoItem == [id |-> 0, name |-> "", createdAt |-> NullTime]
NoBody == [valid |-> FALSE, has_name |-> FALSE, name |-> ""]
NoResponse == [status |-> 0, body |-> ""]
NoResult == [kind |-> "", item |-> NoItem, list |-> <<>>]

\* pc: where the thread is; method, path, id, body: the request it handles;
\* op: the db function it is in; trace: what it did for this request, in order;
\* nlog: its add_log calls for this request; last, seen: locals of the running
\* adapter function; result: what the db function returned or raised
IdleThread ==
    [pc |-> "idle", method |-> "", path |-> "", id |-> 0, body |-> NoBody,
     op |-> "", trace |-> <<>>, nlog |-> 0, last |-> 0, seen |-> 0,
     result |-> NoResult, response |-> NoResponse]

\* the thread that takes the next request or call: the first idle one
FreeThread(t) ==
    /\ th[t].pc = "idle"
    /\ \A u \in Threads : u < t => th[u].pc # "idle"

-----------------------------------------------------------------------------
(* Initial states *)

S(chars) == Str(chars)

\* no pool yet and no connection open
NoConns == [used |-> 0, idle |-> 0, open |-> 0]


InitWith(env) ==
    /\ environ = env
    /\ config_module = LoadConfig(env)
    /\ started = FALSE
    /\ clock = 0
    /\ _logs = <<>>
    /\ appended = <<>>
    /\ _ping_ok_logged = FALSE
    /\ _pg_pool = FALSE
    /\ _mongo_db = FALSE
    /\ dbUp \in BOOLEAN
    /\ items = <<>>
    /\ items_exists = FALSE
    /\ serial = 0
    /\ returned = {}
    /\ nreq = 0
    /\ conns = NoConns
    /\ th = [t \in Threads |-> IdleThread]

\* values of the DB_TYPE environment variable
EnvTypes ==
    {Absent, S(<<>>), S(<<" ">>),
     S(<<"p","o","s","t","g","r","e","s","q","l">>),
     S(<<" ","M","y","S","q","l","\n">>),
     S(<<"M","A","R","I","A","D","B">>),
     S(<<"\t","m","o","n","g","o","d","b"," ">>),
     S(<<"O","R","A","C","L","E">>),
     S(<<"M","Y"," ","S","Q","L">>),
     S(<<"P","O","S","T","G","R","E","S">>)}

\* values of the DB_PORT environment variable
EnvPorts ==
    {Absent, S(<<>>),
     S(<<"5","4","3","2">>), S(<<" ","3","3","0","6"," ">>),
     S(<<"2","7","0","1","7">>), S(<<"+","5","4","3","2">>),
     S(<<"0","3","3","0","6">>), S(<<"2","7","_","0","1","7">>),
     S(<<"8","0","8","0">>), S(<<"5","4","3","2","1">>),
     S(<<"-","3","3","0","6">>), S(<<"5","4","3","2","x">>),
     S(<<"a","b","c">>), S(<<"3","3"," ","0","6">>), S(<<"0">>)}

EnvHosts == {Absent, S(<<>>), S(<<"h">>), S(<<" ">>)}
EnvNames == {Absent, S(<<>>), S(<<"d">>)}
EnvUsers == {Absent, S(<<"u">>)}

Env(type, host, port, name, user, password) ==
    [DB_TYPE |-> type, DB_HOST |-> host, DB_PORT |-> port, DB_NAME |-> name,
     DB_USER |-> user, DB_PASSWORD |-> password]

AllEnvs ==
    {Env(ty, h, p, n, u, u) : ty \in EnvTypes, h \in EnvHosts, p \in EnvPorts,
                              n \in EnvNames, u \in EnvUsers}

-----------------------------------------------------------------------------
(* src/app.py: main() *)

Shown(v) == IF Truthy(v) THEN v.s ELSE <<"(","n","o","n","e",")">>

main ==
    /\ ~started
    /\ started' = TRUE
    /\ AddLogs(<<Msg("Config check", <<Shown(get_db_type), is_configured>>, FALSE)>>)
    /\ UNCHANGED <<environ, conns, config_module, _ping_ok_logged, _pg_pool, _mongo_db,
                   dbUp, items, items_exists, serial, returned, nreq, th>>

(* Startup under every environment: resolution of the backend type *)
InitConfig == \E env \in AllEnvs : InitWith(env) /\ dbUp = TRUE
NextConfig == main
SpecConfig == InitConfig /\ [][NextConfig]_vars

-----------------------------------------------------------------------------
(* The Diagnostic Log alone: a sequence of add_log calls *)

LogCallers ==
    {Msg("Connecting to PostgreSQL", <<>>, FALSE),
     Msg("Ping failed", <<>>, TRUE)}

\* add_log(msg, is_error) is called by a thread: the entry is built and
\* _logs.append(entry) runs; the thread notes when another call is under way
add_log_call(t) ==
    /\ clock < MaxAppends
    /\ FreeThread(t)
    /\ \E m \in LogCallers :
          /\ (clock < MaxVaried \/ m.isError)
          /\ _logs' = Append(_logs, LogEntry(clock + 1, m))
          /\ appended' = Append(appended, LogEntry(clock + 1, m))
    /\ clock' = clock + 1
    /\ th' = [th EXCEPT ![t] = [th[t] EXCEPT !.pc = "add_log_test",
                 !.trace = IF (\E u \in Threads : u # t /\ th[u].pc # "idle")
                              /\ th[t].trace = <<>>
                           THEN <<"overlap">> ELSE th[t].trace]]
    /\ UNCHANGED <<environ, conns, config_module, started, _ping_ok_logged, _pg_pool,
                   _mongo_db, dbUp, items, items_exists, serial, returned, nreq>>

\* if len(_logs) > MAX_LOGS:
add_log_test(t) ==
    /\ th[t].pc = "add_log_test"
    /\ th' = [th EXCEPT ![t] = [th[t] EXCEPT !.pc =
                 IF Len(_logs) > MAX_LOGS THEN "add_log_len" ELSE "idle"]]
    /\ UNCHANGED <<environ, conns, config_module, started, clock, _logs, appended,
                   _ping_ok_logged, _pg_pool, _mongo_db, dbUp, items,
                   items_exists, serial, returned, nreq>>

\* len(_logs) - MAX_LOGS, the bound of the slice, is evaluated
add_log_len(t) ==
    /\ th[t].pc = "add_log_len"
    /\ th' = [th EXCEPT ![t] = [th[t] EXCEPT !.pc = "add_log_del",
                                            !.seen = Excess(_logs)]]
    /\ UNCHANGED <<environ, conns, config_module, started, clock, _logs, appended,
                   _ping_ok_logged, _pg_pool, _mongo_db, dbUp, items,
                   items_exists, serial, returned, nreq>>

\* del _logs[: ...], and add_log returns
add_log_del(t) ==
    /\ th[t].pc = "add_log_del"
    /\ _logs' = DelPrefix(_logs, th[t].seen)
    /\ th' = [th EXCEPT ![t] = [th[t] EXCEPT !.pc = "idle", !.seen = 0]]
    /\ UNCHANGED <<environ, conns, config_module, started, clock, appended,
                   _ping_ok_logged, _pg_pool, _mongo_db, dbUp, items,
                   items_exists, serial, returned, nreq>>

InitLog ==
    InitWith(Env(Absent, Absent, Absent, Absent, Absent, Absent)) /\ dbUp = TRUE
NextLog ==
    \E t \in Threads :
       add_log_call(t) \/ add_log_test(t) \/ add_log_len(t) \/ add_log_del(t)
SpecLog == InitLog /\ [][NextLog]_vars

-----------------------------------------------------------------------------
(* src/db.py: connections and the items container *)

Backend == get_db_type.s
IsPg    == Backend = POSTGRESQL
IsMysql == Backend \in {MYSQL, MARIADB}
IsMongo == Backend = MONGODB

\* port = int(c.DB_PORT) if c.DB_PORT else <default> does not raise
PortParses == ~Truthy(config_module.DB_PORT) \/ int(config_module.DB_PORT.s).ok

\* _get_pg_pool(): the pool is created once; SimpleConnectionPool(1, 10, ...)
\* opens its first connection at once and raises when the server is down
_get_pg_pool ==
    IF _pg_pool THEN [ok |-> TRUE, pool |-> TRUE, logs |-> <<>>]
    ELSE IF ~PortParses THEN [ok |-> FALSE, pool |-> FALSE, logs |-> <<>>]
    ELSE [ok |-> dbUp, pool |-> dbUp,
          logs |-> <<Msg("Connecting to PostgreSQL", <<>>, FALSE)>>]

\* _mysql_get_connection(): one new connection per call
_mysql_get_connection == [ok |-> PortParses /\ dbUp]

\* _get_mongo_db(): the client is created once and connects lazily
_get_mongo_db ==
    IF _mongo_db THEN [ok |-> TRUE, db |-> TRUE, logs |-> <<>>]
    ELSE IF ~PortParses THEN [ok |-> FALSE, db |-> FALSE, logs |-> <<>>]
    ELSE [ok |-> TRUE, db |-> TRUE,
          logs |-> <<Msg("Connecting to MongoDB", <<>>, FALSE)>>]

\* the handle an adapter function obtains before it talks to the backend
Connect ==
    IF IsPg
    THEN [ok |-> _get_pg_pool.ok, logs |-> _get_pg_pool.logs,
          pg |-> _get_pg_pool.pool, mongo |-> _mongo_db]
    ELSE IF IsMysql
    THEN [ok |-> _mysql_get_connection.ok, logs |-> <<>>,
          pg |-> _pg_pool, mongo |-> _mongo_db]
    ELSE [ok |-> _get_mongo_db.ok, logs |-> _get_mongo_db.logs,
          pg |-> _pg_pool, mongo |-> _get_mongo_db.db]

\* the statement sent over the handle is answered (no driver exception)
IoOk == Connect.ok /\ dbUp

\* datetime.isoformat()
isoformat(dt) == [null |-> FALSE, iso |-> dt]

Created(r) ==
    IF "created_at" \in DOMAIN r THEN isoformat(r.created_at)
    ELSE IF "createdAt" \in DOMAIN r THEN isoformat(r.createdAt)
    ELSE NullTime

\* _item_from_row(r)
_item_from_row(r) == [id |-> r.id, name |-> r.name, createdAt |-> Created(r)]

\* _mongo_doc_to_item(doc)
_mongo_doc_to_item(doc) ==
    [id |-> doc.id, name |-> doc.name,
     createdAt |-> IF "createdAt" \in DOMAIN doc THEN isoformat(doc.createdAt)
                   ELSE NullTime]

\* ORDER BY id / sort("id", 1): stable insertion of r into a sorted sequence
RECURSIVE InsertById(_, _)
InsertById(sorted, r) ==
    IF sorted = <<>> THEN <<r>>
    ELSE IF sorted[Len(sorted)].id <= r.id THEN Append(sorted, r)
    ELSE Append(InsertById(SubSeq(sorted, 1, Len(sorted) - 1), r),
                sorted[Len(sorted)])

RECURSIVE SortById(_)
SortById(rows) ==
    IF rows = <<>> THEN <<>>
    ELSE InsertById(SortById(SubSeq(rows, 1, Len(rows) - 1)), rows[Len(rows)])

\* the first row/document with this id (fetchone / find_one), as a sequence
\* of at most one element
FindById(rows, id) ==
    LET hits == {i \in 1..Len(rows) : rows[i].id = id}
    IN IF hits = {} THEN <<>>
       ELSE <<rows[CHOOSE i \in hits : \A j \in hits : i <= j]>>

\* find_one(sort=[("id", -1)]): the largest id, 0 for no document
MaxIdOf(rows) ==
    IF rows = <<>> THEN 0
    ELSE CHOOSE m \in {rows[i].id : i \in 1..Len(rows)} :
             \A i \in 1..Len(rows) : rows[i].id <= m

\* NOW() / CURRENT_TIMESTAMP / datetime.utcnow() at an insert
DbNow == Len(items) + 1

\* the pc of the adapter function that the public function op dispatches to
AdapterPc(adapter, op) ==
    IF adapter = "_pg"
    THEN CASE op = "get_items" -> "_pg_get_items"
           [] op = "get_item_by_id" -> "_pg_get_item_by_id"
           [] op = "create_item" -> "_pg_create_item"
    ELSE CASE op = "get_items" -> "_mysql_get_items"
           [] op = "get_item_by_id" -> "_mysql_get_item_by_id"
           [] op = "create_item" -> "_mysql_create_item"

\* the response of the three item routes to what the db function returned or
\* raised
RouteResponse(op, result) ==
    IF result.kind = "raise" THEN [status |-> 500, body |-> "json error"]
    ELSE IF op = "get_items"
    THEN IF result.kind # "list"
         THEN [status |-> 503, body |-> "json error"]
         ELSE [status |-> 200, body |-> "json items"]
    ELSE IF op = "get_item_by_id"
    THEN IF result.kind # "item"
         THEN [status |-> 404, body |-> "json error"]
         ELSE [status |-> 200, body |-> "json item"]
    ELSE IF result.kind = "None"
         THEN [status |-> 503, body |-> "json error"]
         ELSE [status |-> 201, body |-> "json item"]

\* the db function returns or raises: to its caller, or into the route that
\* called it, which answers the request
Return(base, result) ==
    IF base.method = ""
    THEN [base EXCEPT !.pc = "return", !.result = result]
    ELSE [base EXCEPT !.pc = "respond", !.result = result,
                      !.response = RouteResponse(base.op, result)]

ItemResult(item) == [kind |-> "item", item |-> item, list |-> <<>>]
ListResult(l) == [kind |-> "list", item |-> NoItem, list |-> l]
NoneResult == [kind |-> "None", item |-> NoItem, list |-> <<>>]
Raised == [kind |-> "raise", item |-> NoItem, list |-> <<>>]

\* one step of thread t that talks to the backend over a handle it obtains
\* first: the "Connecting" entry of a first use, then the entries of more,
\* and the statement in its trace
IoLog(t, stmt, next, more) ==
    LET c == Connect
    IN /\ _pg_pool' = c.pg
       /\ _mongo_db' = c.mongo
       /\ AddLogs(c.logs \o more)
       /\ th' = [th EXCEPT ![t] =
                   [next EXCEPT !.trace = Append(th[t].trace, stmt),
                                !.nlog = th[t].nlog + Len(c.logs) + Len(more)]]

Io(t, stmt, next) == IoLog(t, stmt, next, <<>>)

\* a step of thread t that raises a driver exception out of the db function
IoRaise(t, stmt) ==
    /\ Io(t, stmt, Return(th[t], Raised))
    /\ UNCHANGED <<items, items_exists, serial, returned>>

\* one more statement of thread t on the connection it already has
Again(t, stmt, next) ==
    /\ th' = [th EXCEPT ![t] = [next EXCEPT !.trace = Append(th[t].trace, stmt)]]
    /\ UNCHANGED <<clock, _logs, appended, _pg_pool, _mongo_db>>

Fixed == UNCHANGED <<environ, conns, config_module, started, _ping_ok_logged, dbUp, nreq>>

-----------------------------------------------------------------------------
(* src/db.py: relational-A adapter *)

\* _pg_ensure_items(), called first by every _pg_* items function
_pg_ensure_items(t) ==
    /\ th[t].pc = "_pg_ensure_items"
    /\ IF IoOk
       THEN /\ Io(t, "CREATE TABLE IF NOT EXISTS",
                  [th[t] EXCEPT !.pc = AdapterPc("_pg", th[t].op)])
            /\ items_exists' = TRUE
            /\ UNCHANGED <<items, serial, returned>>
       ELSE IoRaise(t, "CREATE TABLE IF NOT EXISTS")
    /\ Fixed

_pg_get_items(t) ==
    /\ th[t].pc = "_pg_get_items"
    /\ IF IoOk /\ items_exists
       THEN /\ Io(t, "SELECT", Return(th[t], ListResult(
                     [i \in 1..Len(items) |-> _item_from_row(SortById(items)[i])])))
            /\ UNCHANGED <<items, items_exists, serial, returned>>
       ELSE IoRaise(t, "SELECT")
    /\ Fixed

_pg_get_item_by_id(t) ==
    /\ th[t].pc = "_pg_get_item_by_id"
    /\ IF IoOk /\ items_exists
       THEN /\ LET row == FindById(items, th[t].id)
               IN Io(t, "SELECT", Return(th[t],
                       IF row = <<>> THEN NoneResult
                       ELSE ItemResult(_item_from_row(row[1]))))
            /\ UNCHANGED <<items, items_exists, serial, returned>>
       ELSE IoRaise(t, "SELECT")
    /\ Fixed

\* INSERT ... RETURNING id, name, created_at; commit
_pg_create_item(t) ==
    /\ th[t].pc = "_pg_create_item"
    /\ IF IoOk /\ items_exists
       THEN LET row == [id |-> serial + 1, name |-> th[t].body.name,
                        created_at |-> DbNow]
            IN /\ Io(t, "INSERT", Return(th[t], ItemResult(_item_from_row(row))))
               /\ items' = Append(items, row)
               /\ serial' = serial + 1
               /\ returned' = returned \cup {_item_from_row(row)}
               /\ UNCHANGED items_exists
       ELSE IoRaise(t, "INSERT")
    /\ Fixed

-----------------------------------------------------------------------------
(* src/db.py: relational-B adapter *)

\* _mysql_ensure_items(), called first by every _mysql_* items function
_mysql_ensure_items(t) ==
    /\ th[t].pc = "_mysql_ensure_items"
    /\ IF IoOk
       THEN /\ Io(t, "CREATE TABLE IF NOT EXISTS",
                  [th[t] EXCEPT !.pc = AdapterPc("_mysql", th[t].op)])
            /\ items_exists' = TRUE
            /\ UNCHANGED <<items, serial, returned>>
       ELSE IoRaise(t, "CREATE TABLE IF NOT EXISTS")
    /\ Fixed

_mysql_get_items(t) ==
    /\ th[t].pc = "_mysql_get_items"
    /\ IF IoOk /\ items_exists
       THEN /\ Io(t, "SELECT", Return(th[t], ListResult(
                     [i \in 1..Len(items) |-> _item_from_row(SortById(items)[i])])))
            /\ UNCHANGED <<items, items_exists, serial, returned>>
       ELSE IoRaise(t, "SELECT")
    /\ Fixed

_mysql_get_item_by_id(t) ==
    /\ th[t].pc = "_mysql_get_item_by_id"
    /\ IF IoOk /\ items_exists
       THEN /\ LET row == FindById(items, th[t].id)
               IN Io(t, "SELECT", Return(th[t],
                       IF row = <<>> THEN NoneResult
                       ELSE ItemResult(_item_from_row(row[1]))))
            /\ UNCHANGED <<items, items_exists, serial, returned>>
       ELSE IoRaise(t, "SELECT")
    /\ Fixed

\* INSERT; insert_id = cur.lastrowid; commit: the first round trip of
\* _mysql_create_item
_mysql_create_item(t) ==
    /\ th[t].pc = "_mysql_create_item"
    /\ IF IoOk /\ items_exists
       THEN LET row == [id |-> serial + 1, name |-> th[t].body.name,
                        created_at |-> DbNow]
            IN /\ Io(t, "INSERT", [th[t] EXCEPT !.pc = "_mysql_create_item_select",
                                                !.last = serial + 1])
               /\ items' = Append(items, row)
               /\ serial' = serial + 1
               /\ UNCHANGED <<items_exists, returned>>
       ELSE IoRaise(t, "INSERT")
    /\ Fixed

\* SELECT ... WHERE id = insert_id on the same connection: the second round
\* trip of _mysql_create_item
_mysql_create_item_select(t) ==
    /\ th[t].pc = "_mysql_create_item_select"
    /\ IF dbUp
       THEN LET item == _item_from_row(FindById(items, th[t].last)[1])
            IN /\ Again(t, "SELECT", Return(th[t], ItemResult(item)))
               /\ returned' = returned \cup {item}
       ELSE /\ Again(t, "SELECT", Return(th[t], Raised))
            /\ UNCHANGED returned
    /\ UNCHANGED <<items, items_exists, serial>>
    /\ Fixed

-----------------------------------------------------------------------------
(* src/db.py: document-store adapter *)

_mongo_get_items(t) ==
    /\ th[t].pc = "_mongo_get_items"
    /\ IF IoOk
       THEN /\ Io(t, "find", Return(th[t], ListResult(
                     [i \in 1..Len(items) |-> _mongo_doc_to_item(SortById(items)[i])])))
            /\ UNCHANGED <<items, items_exists, serial, returned>>
       ELSE IoRaise(t, "find")
    /\ Fixed

_mongo_get_item_by_id(t) ==
    /\ th[t].pc = "_mongo_get_item_by_id"
    /\ IF IoOk
       THEN /\ LET doc == FindById(items, th[t].id)
               IN Io(t, "find_one", Return(th[t],
                       IF doc = <<>> THEN NoneResult
                       ELSE ItemResult(_mongo_doc_to_item(doc[1]))))
            /\ UNCHANGED <<items, items_exists, serial, returned>>
       ELSE IoRaise(t, "find_one")
    /\ Fixed

\* last = col.find_one(sort=[("id", -1)]): the read of _mongo_create_item
_mongo_create_item(t) ==
    /\ th[t].pc = "_mongo_create_item"
    /\ IF IoOk
       THEN /\ Io(t, "find_one", [th[t] EXCEPT !.pc = "_mongo_create_item_insert",
                                               !.last = MaxIdOf(items),
                                               !.seen = Len(items)])
            /\ UNCHANGED <<items, items_exists, serial, returned>>
       ELSE IoRaise(t, "find_one")
    /\ Fixed

\* next_id without the increment: a faulty variant, used to show that
\* C10_MongoNextId depends on it
next_id_same(last) == IF last # 0 THEN last ELSE 1

\* next_id = (last["id"] + 1) if last else 1
next_id(last) == IF last # 0 THEN last + 1 ELSE 1

\* col.insert_one(doc); return _mongo_doc_to_item(doc): the write of
\* _mongo_create_item
_mongo_create_item_insert(t) ==
    /\ th[t].pc = "_mongo_create_item_insert"
    /\ IF dbUp
       THEN LET doc == [id |-> next_id(th[t].last), name |-> th[t].body.name,
                        createdAt |-> DbNow]
            IN /\ Again(t, "insert_one", Return(th[t], ItemResult(_mongo_doc_to_item(doc))))
               /\ items' = Append(items, doc)
               /\ returned' = returned \cup {_mongo_doc_to_item(doc)}
       ELSE /\ Again(t, "insert_one", Return(th[t], Raised))
            /\ UNCHANGED <<items, returned>>
    /\ UNCHANGED <<items_exists, serial>>
    /\ Fixed

-----------------------------------------------------------------------------
(* src/db.py: public functions *)

\* get_items / get_item_by_id / create_item: None when not configured, else
\* the adapter function of the resolved type
Dispatch(base, op) ==
    IF ~is_configured
    THEN [base EXCEPT !.pc = "return", !.op = op, !.result = NoneResult]
    ELSE IF IsPg THEN [base EXCEPT !.pc = "_pg_ensure_items", !.op = op]
    ELSE IF IsMysql THEN [base EXCEPT !.pc = "_mysql_ensure_items", !.op = op]
    ELSE [base EXCEPT !.op = op,
             !.pc = CASE op = "get_items" -> "_mongo_get_items"
                      [] op = "get_item_by_id" -> "_mongo_get_item_by_id"
                      [] op = "create_item" -> "_mongo_create_item"]

PingStatement == IF IsMongo THEN "ping" ELSE "SELECT 1"

PingOkMsg ==
    IF IsPg THEN Msg("Ping OK (PostgreSQL)", <<>>, FALSE)
    ELSE IF IsMysql THEN Msg("Ping OK (MySQL/MariaDB)", <<>>, FALSE)
    ELSE Msg("Ping OK (MongoDB)", <<>>, FALSE)

\* ping(): the liveness statement; a driver exception is logged and ping
\* returns False
ping(t) ==
    /\ th[t].pc = "ping"
    /\ IF IoOk
       THEN Io(t, PingStatement, [th[t] EXCEPT !.pc = "ping_ok"])
       ELSE IoLog(t, PingStatement, [th[t] EXCEPT !.pc = "ping_false"],
                  <<Msg("Ping failed", <<>>, TRUE)>>)
    /\ UNCHANGED <<environ, conns, config_module, started, _ping_ok_logged, dbUp,
                   items, items_exists, serial, returned, nreq>>

\* ping(): if not _ping_ok_logged
ping_ok_test(t) ==
    /\ th[t].pc = "ping_ok"
    /\ th' = [th EXCEPT ![t] =
                IF _ping_ok_logged
                THEN [th[t] EXCEPT !.pc = "dispatch",
                                   !.trace = Append(th[t].trace, "ping=True")]
                ELSE [th[t] EXCEPT !.pc = "ping_ok_log"]]
    /\ UNCHANGED <<environ, conns, config_module, started, clock, _logs, appended,
                   _ping_ok_logged, _pg_pool, _mongo_db, dbUp, items,
                   items_exists, serial, returned, nreq>>

\* ping(): db_logger.add_log("Ping OK (...)")
ping_ok_log(t) ==
    /\ th[t].pc = "ping_ok_log"
    /\ AddLogs(<<PingOkMsg>>)
    /\ th' = [th EXCEPT ![t] = [th[t] EXCEPT !.pc = "ping_ok_set",
                                             !.nlog = th[t].nlog + 1]]
    /\ UNCHANGED <<environ, conns, config_module, started, _ping_ok_logged, _pg_pool,
                   _mongo_db, dbUp, items, items_exists, serial, returned, nreq>>

\* ping(): _ping_ok_logged = True; return True
ping_ok_set(t) ==
    /\ th[t].pc = "ping_ok_set"
    /\ _ping_ok_logged' = TRUE
    /\ th' = [th EXCEPT ![t] = [th[t] EXCEPT !.pc = "dispatch",
                                  !.trace = Append(th[t].trace, "ping=True")]]
    /\ UNCHANGED <<environ, conns, config_module, started, clock, _logs, appended,
                   _pg_pool, _mongo_db, dbUp, items, items_exists, serial,
                   returned, nreq>>

-----------------------------------------------------------------------------
(* src/app.py: the availability gate and the probes *)

Probes == {"/ok", "/gateway-timeout"}

\* the ids a caller asks for: those that may be stored, and one that is not
AskedIds == 1..(Len(items) + 1)

\* a gate that lets only /ok bypass it: a faulty variant, used to show that
\* C2_ProbesBypass depends on the bypass of both probes
Bypasses_ok_only(path) == path = "/ok"

\* if request.path in ("/ok", "/gateway-timeout"): return None
Bypasses(path) == path \in Probes

Names == {"a", "b"}

JsonBody(has_name, name) == [valid |-> TRUE, has_name |-> has_name, name |-> name]

\* the bodies posted to /api/items: not JSON, no "name", an empty name, a name
Bodies == {NoBody, JsonBody(FALSE, ""), JsonBody(TRUE, ""), JsonBody(TRUE, "a")}

\* method and URL rule of a request; the id of the path and the body are
\* drawn where the route reads them
Requests ==
    {[method |-> "GET", path |-> p] :
        p \in {"/ok", "/gateway-timeout", "/api/health", "/api/items",
               "/api/items/<int:id>"}}
    \cup {[method |-> "POST", path |-> "/api/items"]}

AccessDenied == [status |-> 200, body |-> "access denied html"]

\* a request arrives, a new thread takes it, and Flask runs
\* check_db_before_request() up to its call of db.ping()
check_db_before_request(t) ==
    /\ started
    /\ nreq < MaxRequests
    /\ FreeThread(t)
    /\ nreq' = nreq + 1
    /\ \E r \in Requests :
          LET new == [IdleThread EXCEPT !.method = r.method, !.path = r.path]
          IN IF Bypasses(r.path)
             THEN /\ th' = [th EXCEPT ![t] = [new EXCEPT !.pc = "dispatch"]]
                  /\ UNCHANGED <<clock, _logs, appended>>
             ELSE IF ~is_configured
             THEN /\ AddLogs(<<Msg("Access denied: DB not configured", <<>>, FALSE)>>)
                  /\ th' = [th EXCEPT ![t] = [new EXCEPT !.pc = "respond",
                               !.trace = <<"is_configured=False">>,
                               !.nlog = 1,
                               !.response = AccessDenied]]
             ELSE /\ th' = [th EXCEPT ![t] = [new EXCEPT !.pc = "ping",
                               !.trace = <<"is_configured=True">>]]
                  /\ UNCHANGED <<clock, _logs, appended>>
    /\ UNCHANGED <<environ, conns, config_module, started, _ping_ok_logged, _pg_pool,
                   _mongo_db, dbUp, items, items_exists, serial, returned>>

\* the gate letting a request through after a failed ping: a faulty variant,
\* used to show that C1_GateGuardsHandlers depends on the denial
check_db_ping_failed_lets_through(t) ==
    /\ th[t].pc = "ping_false"
    /\ AddLogs(<<Msg("Access denied: DB ping failed", <<>>, FALSE)>>)
    /\ th' = [th EXCEPT ![t] = [th[t] EXCEPT !.pc = "dispatch",
                 !.trace = Append(th[t].trace, "ping=False"),
                 !.nlog = th[t].nlog + 1]]
    /\ UNCHANGED <<environ, conns, config_module, started, _ping_ok_logged, _pg_pool,
                   _mongo_db, dbUp, items, items_exists, serial, returned, nreq>>

\* the gate denying after a failed ping without its add_log: a faulty
\* variant, used to show that C5_DenialsLogged depends on that entry
check_db_ping_failed_silent(t) ==
    /\ th[t].pc = "ping_false"
    /\ th' = [th EXCEPT ![t] = [th[t] EXCEPT !.pc = "respond",
                 !.trace = Append(th[t].trace, "ping=False"),
                 !.response = AccessDenied]]
    /\ UNCHANGED <<environ, conns, config_module, started, clock, _logs, appended,
                   _ping_ok_logged, _pg_pool, _mongo_db, dbUp, items,
                   items_exists, serial, returned, nreq>>

\* check_db_before_request(), after db.ping() returned False
check_db_ping_failed(t) ==
    /\ th[t].pc = "ping_false"
    /\ AddLogs(<<Msg("Access denied: DB ping failed", <<>>, FALSE)>>)
    /\ th' = [th EXCEPT ![t] = [th[t] EXCEPT !.pc = "respond",
                 !.trace = Append(th[t].trace, "ping=False"),
                 !.nlog = th[t].nlog + 1,
                 !.response = AccessDenied]]
    /\ UNCHANGED <<environ, conns, config_module, started, _ping_ok_logged, _pg_pool,
                   _mongo_db, dbUp, items, items_exists, serial, returned, nreq>>

Unchanged_but_th ==
    UNCHANGED <<environ, conns, config_module, started, clock, _logs, appended,
                _ping_ok_logged, _pg_pool, _mongo_db, dbUp, items,
                items_exists, serial, returned, nreq>>

Handled(t, handler) == [th[t] EXCEPT !.trace = Append(th[t].trace, handler)]

Respond(base, status, body) ==
    [base EXCEPT !.pc = "respond", !.response = [status |-> status, body |-> body]]

\* @app.route("/ok")
ok(t) ==
    /\ th[t].pc = "dispatch" /\ th[t].method = "GET" /\ th[t].path = "/ok"
    /\ th' = [th EXCEPT ![t] = Respond(Handled(t, "handler ok"), 200, "OK")]
    /\ Unchanged_but_th

\* @app.route("/gateway-timeout")
gateway_timeout(t) ==
    /\ th[t].pc = "dispatch" /\ th[t].method = "GET"
    /\ th[t].path = "/gateway-timeout"
    /\ th' = [th EXCEPT ![t] =
                Respond(Handled(t, "handler gateway_timeout"), 504, "Gateway Timeout")]
    /\ Unchanged_but_th

-----------------------------------------------------------------------------
(* src/routes.py *)

\* @api.route("/health")
health(t) ==
    /\ th[t].pc = "dispatch" /\ th[t].method = "GET" /\ th[t].path = "/api/health"
    /\ th' = [th EXCEPT ![t] = Respond(Handled(t, "handler health"), 200, "json status")]
    /\ Unchanged_but_th

\* @api.route("/items", methods=["GET"]), up to its call of db.get_items()
routes_get_items(t) ==
    /\ th[t].pc = "dispatch" /\ th[t].method = "GET" /\ th[t].path = "/api/items"
    /\ th' = [th EXCEPT ![t] = Dispatch(Handled(t, "handler get_items"), "get_items")]
    /\ Unchanged_but_th

\* @api.route("/items/<int:id>"), up to its call of db.get_item_by_id(id)
routes_get_item_by_id(t) ==
    /\ th[t].pc = "dispatch" /\ th[t].method = "GET"
    /\ th[t].path = "/api/items/<int:id>"
    /\ \E i \in AskedIds :
          th' = [th EXCEPT ![t] =
                   Dispatch([Handled(t, "handler get_item_by_id") EXCEPT !.id = i],
                            "get_item_by_id")]
    /\ Unchanged_but_th

\* name = (request.get_json(silent=True) or {}).get("name")
RequestName(body) ==
    IF body.valid /\ body.has_name THEN [has |-> TRUE, name |-> body.name]
    ELSE [has |-> FALSE, name |-> ""]

\* "if name is None": a faulty variant that lets an empty name through, used
\* to show that C8_NoContactInHandler depends on the test of the name
NameMissing_none_only(name) == ~name.has

\* if not name
NameMissing(name) == ~name.has \/ name.name = ""

\* @api.route("/items", methods=["POST"]), up to its call of db.create_item(name)
routes_create_item(t) ==
    /\ th[t].pc = "dispatch" /\ th[t].method = "POST" /\ th[t].path = "/api/items"
    /\ \E body \in Bodies :
          LET name == RequestName(body)
              base == [Handled(t, "handler create_item") EXCEPT !.body = body]
          IN th' = [th EXCEPT ![t] =
                      IF NameMissing(name)
                      THEN Respond(base, 400, "name is required")
                      ELSE Dispatch(base, "create_item")]
    /\ Unchanged_but_th

\* the response is sent and the thread is free again
respond(t) ==
    /\ th[t].pc = "respond"
    /\ th' = [th EXCEPT ![t] = IdleThread]
    /\ Unchanged_but_th

\* the backend server goes down or comes back
backend_flip ==
    /\ dbUp' = ~dbUp
    /\ UNCHANGED <<environ, conns, config_module, started, clock, _logs, appended,
                   _ping_ok_logged, _pg_pool, _mongo_db, items, items_exists,
                   serial, returned, nreq, th>>

-----------------------------------------------------------------------------
(* The server: main(), then requests handled by concurrent threads *)

H == S(<<"h">>)
D == S(<<"d">>)

ServedEnvs ==
    {Env(Absent, Absent, Absent, Absent, Absent, Absent),
     Env(Absent, H, S(<<"5","4","3","2">>), D, Absent, Absent),
     Env(S(<<" ","M","y","S","q","l","\n">>), H, Absent, D, Absent, Absent),
     Env(S(<<"M","A","R","I","A","D","B">>), H, S(<<"a","b","c">>), D, Absent, Absent),
     Env(S(<<"m","o","n","g","o","d","b">>), H, S(<<"2","7","0","1","7">>), D, Absent, Absent)}

Adapter(t) ==
    \/ _pg_ensure_items(t) \/ _pg_get_items(t) \/ _pg_get_item_by_id(t)
    \/ _pg_create_item(t)
    \/ _mysql_ensure_items(t) \/ _mysql_get_items(t) \/ _mysql_get_item_by_id(t)
    \/ _mysql_create_item(t) \/ _mysql_create_item_select(t)
    \/ _mongo_get_items(t) \/ _mongo_get_item_by_id(t)
    \/ _mongo_create_item(t) \/ _mongo_create_item_insert(t)

Init == \E env \in ServedEnvs : InitWith(env)

Next ==
    \/ main
    \/ backend_flip
    \/ \E t \in Threads :
          \/ check_db_before_request(t) \/ ping(t)
          \/ ping_ok_test(t) \/ ping_ok_log(t) \/ ping_ok_set(t)
          \/ check_db_ping_failed(t)
          \/ ok(t) \/ gateway_timeout(t) \/ health(t)
          \/ routes_get_items(t) \/ routes_get_item_by_id(t)
          \/ routes_create_item(t) \/ respond(t)
          \/ Adapter(t)

Spec == Init /\ [][Next]_vars

-----------------------------------------------------------------------------
(* The db module called directly by concurrent callers *)

DbEnvs ==
    {e \in ServedEnvs : Truthy(e.DB_HOST) /\ (~Truthy(e.DB_PORT) \/ int(e.DB_PORT.s).ok)}

\* db.get_items() / db.get_item_by_id(id) / db.create_item(name) is called
call(t) ==
    /\ nreq < MaxCalls
    /\ FreeThread(t)
    /\ nreq' = nreq + 1
    /\ \/ th' = [th EXCEPT ![t] = Dispatch(IdleThread, "get_items")]
       \/ \E i \in AskedIds :
             th' = [th EXCEPT ![t] =
                      Dispatch([IdleThread EXCEPT !.id = i], "get_item_by_id")]
       \/ \E n \in Names :
             th' = [th EXCEPT ![t] =
                      Dispatch([IdleThread EXCEPT !.body = JsonBody(TRUE, n)],
                               "create_item")]
    /\ UNCHANGED <<environ, conns, config_module, started, clock, _logs, appended,
                   _ping_ok_logged, _pg_pool, _mongo_db, dbUp, items,
                   items_exists, serial, returned>>

\* the db function returns to its caller
return(t) ==
    /\ th[t].pc = "return"
    /\ th' = [th EXCEPT ![t] = IdleThread]
    /\ Unchanged_but_th

InitDb == \E env \in DbEnvs : InitWith(env)

NextDb ==
    \/ backend_flip
    \/ \E t \in Threads : call(t) \/ return(t) \/ Adapter(t)

SpecDb == InitDb /\ [][NextDb]_vars

-----------------------------------------------------------------------------
(* Connections of the relational adapters.  The adapter actions above take   *)
(* the checkout, the statement and the return of a connection as one step;   *)
(* here every relational operation of src/db.py runs them one by one, so     *)
(* that the backend can fail between any two of them.                        *)

\* SimpleConnectionPool(1, 10, ...): minconn and maxconn
minconn == 1
maxconn == 10

\* ping, get_tables, get_items, get_item_by_id, create_item
ConnOps == {"ping", "get_tables", "get_items", "get_item_by_id", "create_item"}

\* the operations that call _pg_ensure_items() / _mysql_ensure_items() first
ItemsOps == {"get_items", "get_item_by_id", "create_item"}

\* thread t is inside the nested ensure-items function
InEnsure(t) == th[t].pc \in {"conn_ensure_get", "conn_ensure_exec", "conn_ensure_put"}

\* the statement the running function executes on its connection
Statement(t) ==
    IF InEnsure(t) THEN "CREATE TABLE IF NOT EXISTS"
    ELSE CASE th[t].op = "ping" -> "SELECT 1"
           [] th[t].op = "get_tables" -> "SELECT table_name"
           [] th[t].op = "create_item" -> "INSERT"
           [] OTHER -> "SELECT"

\* how the public function ends: ping() and get_tables() catch the exception,
\* the items functions let it out
OpResult(op, raised) ==
    [NoResult EXCEPT !.kind =
        CASE op = "ping" -> IF raised THEN "False" ELSE "True"
          [] op = "get_tables" -> IF raised THEN "error" ELSE "tables"
          [] OTHER -> IF raised THEN "raise" ELSE "returned"]

\* the thread record when the public function has ended
EndOfOp(base, raised) ==
    [base EXCEPT !.pc = "return", !.result = OpResult(base.op, raised)]

\* what ping() logs when it ends
PingLogs(op, raised) ==
    IF op # "ping" THEN <<>>
    ELSE IF raised THEN <<Msg("Ping failed", <<>>, TRUE)>>
    ELSE IF ~_ping_ok_logged THEN <<PingOkMsg>>
    ELSE <<>>

\* one step of thread t in a relational operation: its new record, the
\* connections, the entries logged, the pool, and whether the function ended
ConnStep(t, next, c, ms, pool, ended, raised) ==
    /\ th' = [th EXCEPT ![t] = IF ended THEN EndOfOp(next, raised) ELSE next]
    /\ conns' = c
    /\ AddLogs(ms \o (IF ended THEN PingLogs(th[t].op, raised) ELSE <<>>))
    /\ _pg_pool' = pool
    /\ _ping_ok_logged' = (_ping_ok_logged \/ (ended /\ ~raised /\ th[t].op = "ping"))
    /\ UNCHANGED <<environ, config_module, started, _mongo_db, dbUp, items,
                   serial, returned, nreq>>

\* thread t with e appended to its trace and its position moved
Moved(t, e, pc) == [th[t] EXCEPT !.trace = Append(th[t].trace, e), !.pc = pc]

\* one of the relational operations of db.py is called
conn_call(t) ==
    /\ nreq < MaxCalls
    /\ FreeThread(t)
    /\ nreq' = nreq + 1
    /\ \E op \in ConnOps :
          th' = [th EXCEPT ![t] =
                   [IdleThread EXCEPT !.op = op,
                       !.pc = IF op \in ItemsOps THEN "conn_ensure_get" ELSE "conn_get"]]
    /\ UNCHANGED <<environ, conns, config_module, started, clock, _logs, appended,
                   _ping_ok_logged, _pg_pool, _mongo_db, dbUp, items,
                   items_exists, serial, returned>>

\* pool = _get_pg_pool(); conn = pool.getconn(): before the try, so that an
\* exception here leaves nothing checked out.  A new pool holds minconn idle
\* connections; getconn hands out an idle one, or opens one, or raises
\* PoolError when maxconn are in use
pg_getconn(t) ==
    /\ IsPg
    /\ th[t].pc \in {"conn_ensure_get", "conn_get"}
    /\ LET p    == _get_pg_pool
           idle == IF ~_pg_pool /\ p.ok THEN minconn ELSE conns.idle
           got  == p.ok /\ conns.used < maxconn /\ (idle > 0 \/ dbUp)
           pc   == IF InEnsure(t) THEN "conn_ensure_exec" ELSE "conn_exec"
       IN IF got
          THEN ConnStep(t, Moved(t, "getconn", pc),
                        [conns EXCEPT !.used = conns.used + 1,
                                      !.idle = IF idle > 0 THEN idle - 1 ELSE 0],
                        p.logs, p.pool, FALSE, FALSE)
          ELSE ConnStep(t, Moved(t, "getconn raises", th[t].pc),
                        [conns EXCEPT !.idle = idle],
                        p.logs, p.pool, TRUE, TRUE)
    /\ UNCHANGED items_exists

\* with conn.cursor() as cur: cur.execute(...); conn.commit(): inside the try
pg_execute(t) ==
    /\ IsPg
    /\ th[t].pc \in {"conn_ensure_exec", "conn_exec"}
    /\ LET pc == IF InEnsure(t) THEN "conn_ensure_put" ELSE "conn_put"
       IN ConnStep(t, [Moved(t, Statement(t), pc) EXCEPT
                          !.result = IF dbUp THEN NoResult ELSE Raised],
                   conns, <<>>, _pg_pool, FALSE, FALSE)
    /\ items_exists' = (items_exists \/ (InEnsure(t) /\ dbUp))

\* pool.putconn(conn) with the try skipped when the statement raised: a faulty
\* variant, used to show that C12_NoLeak depends on the finally
pg_putconn_not_finally(t) ==
    /\ IsPg
    /\ th[t].pc \in {"conn_ensure_put", "conn_put"}
    /\ LET raised == th[t].result = Raised
       IN ConnStep(t, Moved(t, "putconn", "conn_get"),
                   IF raised THEN conns
                   ELSE [conns EXCEPT !.used = conns.used - 1,
                            !.idle = IF conns.idle < minconn THEN conns.idle + 1
                                     ELSE conns.idle],
                   <<>>, _pg_pool, raised \/ ~InEnsure(t), raised)
    /\ UNCHANGED items_exists

\* finally: pool.putconn(conn), on the way out of the try whether the
\* statement raised or not; the pool keeps a sound connection while it has
\* fewer than minconn idle ones and closes it otherwise
pg_putconn(t) ==
    /\ IsPg
    /\ th[t].pc \in {"conn_ensure_put", "conn_put"}
    /\ LET raised == th[t].result = Raised
       IN ConnStep(t, Moved(t, "putconn", "conn_get"),
                   [conns EXCEPT !.used = conns.used - 1,
                       !.idle = IF ~raised /\ conns.idle < minconn
                                THEN conns.idle + 1 ELSE conns.idle],
                   <<>>, _pg_pool, raised \/ ~InEnsure(t), raised)
    /\ UNCHANGED items_exists

\* conn = _mysql_get_connection(): before the try
mysql_connect(t) ==
    /\ IsMysql
    /\ th[t].pc \in {"conn_ensure_get", "conn_get"}
    /\ LET pc == IF InEnsure(t) THEN "conn_ensure_exec" ELSE "conn_exec"
       IN IF _mysql_get_connection.ok
          THEN ConnStep(t, Moved(t, "connect", pc),
                        [conns EXCEPT !.open = conns.open + 1],
                        <<>>, _pg_pool, FALSE, FALSE)
          ELSE ConnStep(t, Moved(t, "connect raises", th[t].pc), conns,
                        <<>>, _pg_pool, TRUE, TRUE)
    /\ UNCHANGED items_exists

\* the statements inside the try; _mysql_create_item executes a second one,
\* the SELECT of the inserted row, on the same connection
mysql_execute(t) ==
    /\ IsMysql
    /\ th[t].pc \in {"conn_ensure_exec", "conn_exec", "conn_select"}
    /\ LET pc == IF InEnsure(t) THEN "conn_ensure_put"
                 ELSE IF dbUp /\ th[t].pc = "conn_exec" /\ th[t].op = "create_item"
                 THEN "conn_select"
                 ELSE "conn_put"
           stmt == IF th[t].pc = "conn_select" THEN "SELECT" ELSE Statement(t)
       IN ConnStep(t, [Moved(t, stmt, pc) EXCEPT
                          !.result = IF dbUp THEN NoResult ELSE Raised],
                   conns, <<>>, _pg_pool, FALSE, FALSE)
    /\ items_exists' = (items_exists \/ (InEnsure(t) /\ dbUp))

\* finally: conn.close()
mysql_close(t) ==
    /\ IsMysql
    /\ th[t].pc \in {"conn_ensure_put", "conn_put"}
    /\ LET raised == th[t].result = Raised
       IN ConnStep(t, Moved(t, "close", "conn_get"),
                   [conns EXCEPT !.open = conns.open - 1],
                   <<>>, _pg_pool, raised \/ ~InEnsure(t), raised)
    /\ UNCHANGED items_exists

InitConn ==
    /\ \E env \in ServedEnvs : InitWith(env)
    /\ is_configured /\ (IsPg \/ IsMysql)

NextConn ==
    \/ backend_flip
    \/ \E t \in Threads :
          \/ conn_call(t) \/ return(t)
          \/ pg_getconn(t) \/ pg_execute(t) \/ pg_putconn(t)
          \/ mysql_connect(t) \/ mysql_execute(t) \/ mysql_close(t)

SpecConn == InitConn /\ [][NextConn]_vars

-----------------------------------------------------------------------------
(* Properties *)

Handlers ==
    {"handler ok", "handler gateway_timeout", "handler health",
     "handler get_items", "handler get_item_by_id", "handler create_item"}

BackendStatements ==
    {"SELECT 1", "ping", "CREATE TABLE IF NOT EXISTS", "SELECT", "INSERT",
     "find", "find_one", "insert_one"}

In(trace, e) == \E i \in 1..Len(trace) : trace[i] = e
HandlerRan(t) == \E i \in 1..Len(th[t].trace) : th[t].trace[i] \in Handlers
Gated(t) == th[t].path # "" /\ th[t].path \notin Probes
Denied(t) ==
    In(th[t].trace, "is_configured=False") \/ In(th[t].trace, "ping=False")

\* C1: for a request whose path is not a probe, a route handler runs only
\* after is_configured() was true and ping() returned true in that request,
\* in this order; when is_configured() is false or ping() fails, no handler
\* runs and the response is the HTTP 200 diagnostic page.
C1_GateGuardsHandlers ==
    \A t \in Threads :
       Gated(t) =>
          /\ HandlerRan(t) =>
                \E i, j, k \in 1..Len(th[t].trace) :
                   /\ i < j /\ j < k
                   /\ th[t].trace[i] = "is_configured=True"
                   /\ th[t].trace[j] = "ping=True"
                   /\ th[t].trace[k] \in Handlers
                   /\ \A m \in 1..(k - 1) : th[t].trace[m] \notin Handlers
          /\ Denied(t) =>
                /\ ~HandlerRan(t)
                /\ th[t].pc = "respond"
                /\ th[t].response = [status |-> 200, body |-> "access denied html"]

\* one request was denied because its ping failed and no handler ran for it,
\* and for another one a handler ran after the gate let it through
C1_Witness ==
    \E t, u \in Threads :
       /\ th[t].path = "/api/items" /\ th[t].pc = "respond"
       /\ In(th[t].trace, "is_configured=True") /\ In(th[t].trace, "ping=False")
       /\ ~HandlerRan(t)
       /\ th[t].response.status = 200
       /\ Gated(u) /\ HandlerRan(u) /\ In(th[u].trace, "ping=True")

ProbeResponse(path) ==
    IF path = "/ok" THEN [status |-> 200, body |-> "OK"]
    ELSE [status |-> 504, body |-> "Gateway Timeout"]

\* C2: every step of a thread that handles GET /ok or GET /gateway-timeout
\* leaves the Diagnostic Log, the ping-success latch and the connection
\* handles unchanged, makes no is_configured check, no ping and no backend
\* statement, and the response is 200 "OK" resp. 504 "Gateway Timeout".
C2_ProbesBypass ==
    [][\A t \in Threads :
          (th'[t] # th[t] /\ th'[t].path \in Probes) =>
             /\ UNCHANGED <<_logs, appended, clock, _ping_ok_logged, _pg_pool,
                            _mongo_db, items, items_exists>>
             /\ th'[t].nlog = 0
             /\ \A i \in 1..Len(th'[t].trace) : th'[t].trace[i] \in Handlers
             /\ th'[t].pc = "respond" =>
                   th'[t].response = ProbeResponse(th'[t].path)]_vars

\* a probe was answered while the backend was configured and down
C2_Witness ==
    \E t \in Threads :
       /\ th[t].path = "/gateway-timeout" /\ th[t].pc = "respond"
       /\ th[t].response = [status |-> 504, body |-> "Gateway Timeout"]
       /\ is_configured /\ ~dbUp

\* the last n elements of a sequence
LastN(seq, n) == SubSeq(seq, Len(seq) - n + 1, Len(seq))

\* no call of add_log is under way
Quiescent == \A t \in Threads : th[t].pc = "idle"

\* some call of add_log began while another one was under way
Overlapped == \E t \in Threads : In(th[t].trace, "overlap")

\* C3: after any sequence of add_log calls get_logs holds at most 100
\* entries, and they are the most recently appended ones in append order.
\* The bound holds whenever no call is under way; the entries are the most
\* recent ones when the calls came one after another.
C3_LogBounded ==
    Quiescent =>
       /\ Len(get_logs) <= MAX_LOGS
       /\ ~Overlapped =>
             get_logs = IF Len(appended) <= MAX_LOGS THEN appended
                        ELSE LastN(appended, MAX_LOGS)

\* after the 101st append the 1st entry is gone and entries 2..101 remain
C3_Witness ==
    /\ Quiescent /\ ~Overlapped
    /\ Len(appended) = MAX_LOGS + 1
    /\ Len(get_logs) = MAX_LOGS
    /\ get_logs[1] = appended[2]
    /\ get_logs[MAX_LOGS] = appended[MAX_LOGS + 1]

\* two calls whose trims overlapped left fewer than 100 of 102 entries
OverlapLosesEntries ==
    Quiescent /\ Len(appended) > MAX_LOGS /\ Len(get_logs) < MAX_LOGS

\* get_logs of one thread between the append and the trim of another
OverlapShowsExcess == Len(get_logs) > MAX_LOGS

PingOkTexts ==
    {"Ping OK (PostgreSQL)", "Ping OK (MySQL/MariaDB)", "Ping OK (MongoDB)"}

PingOkAppends == {i \in 1..Len(appended) : appended[i].msg.text \in PingOkTexts}

\* C4: over the lifetime of the process the "Ping OK" success event is
\* appended to the Diagnostic Log at most once.
C4_PingOkOnce == Cardinality(PingOkAppends) <= 1

\* the gate has decided for the request of thread t
GateDecided(t) == Gated(t) /\ (Denied(t) \/ In(th[t].trace, "ping=True"))

\* C5 as stated: every gated request, denied or let through, appends at
\* least one entry to the Diagnostic Log while it passes through the gate.
C5_Original == \A t \in Threads : GateDecided(t) => th[t].nlog >= 1

\* C5 as amended: a request denied for missing configuration appends the
\* access-denied entry; a request denied for a failed ping appends the
\* "Ping failed" entry and the access-denied entry; a request that is let
\* through and appended nothing found the success latch already set.
C5_DenialsLogged ==
    \A t \in Threads :
       Gated(t) =>
          /\ In(th[t].trace, "is_configured=False") => th[t].nlog >= 1
          /\ In(th[t].trace, "ping=False") => th[t].nlog >= 2
          /\ (In(th[t].trace, "ping=True") /\ th[t].nlog = 0) => _ping_ok_logged

\* a request was denied after a failed ping and logged both entries
C5_Witness ==
    \E t \in Threads :
       /\ Gated(t) /\ In(th[t].trace, "ping=False") /\ th[t].nlog >= 2
       /\ Len(appended) >= 2
       /\ appended[Len(appended)].msg.text = "Access denied: DB ping failed"

\* the resolved type the claims state, from the environment
ExpectedType ==
    LET ty == IF environ.DB_TYPE.set THEN upper(strip(environ.DB_TYPE.s)) ELSE <<>>
        p  == IF environ.DB_PORT.set /\ environ.DB_PORT.s # <<>>
              THEN int(environ.DB_PORT.s)
              ELSE [ok |-> FALSE, val |-> 0]
    IN IF ty \in {POSTGRESQL, MYSQL, MARIADB, MONGODB} THEN Str(ty)
       ELSE IF p.ok /\ p.val = 5432 THEN Str(POSTGRESQL)
       ELSE IF p.ok /\ p.val = 3306 THEN Str(MYSQL)
       ELSE IF p.ok /\ p.val = 27017 THEN Str(MONGODB)
       ELSE Absent

\* C6: get_db_type returns the explicit type, trimmed and upper-cased, when
\* it is one of the four kinds, whatever the port; else the type of a port
\* that parses as 5432, 3306 or 27017; else None.  main() logs that value.
C6_TypeResolution ==
    /\ get_db_type = ExpectedType
    /\ started => appended[1].msg.args[1] = Shown(ExpectedType)

\* an unrecognised explicit type with a padded port 3306 resolved to MYSQL
C6_Witness ==
    /\ started
    /\ environ.DB_TYPE = S(<<"O","R","A","C","L","E">>)
    /\ environ.DB_PORT = S(<<" ","3","3","0","6"," ">>)
    /\ get_db_type = Str(MYSQL)

NonEmpty(v) == v.set /\ Len(v.s) > 0

\* C7: is_configured() is false when the resolved type is undetermined or
\* the host or the database name is empty or absent, and true otherwise;
\* user, password and port do not matter.  main() logs that value.
C7_IsConfigured ==
    LET expected == /\ ExpectedType # Absent
                    /\ NonEmpty(environ.DB_HOST)
                    /\ NonEmpty(environ.DB_NAME)
    IN /\ is_configured = expected
       /\ started => appended[1].msg.args[2] = expected

\* configured with an explicit type and neither port, user nor password
C7_Witness ==
    /\ started
    /\ ~environ.DB_PORT.set /\ ~environ.DB_USER.set /\ ~environ.DB_PASSWORD.set
    /\ is_configured
    /\ appended[1].msg.args[2] = TRUE

\* thread t answered a POST /api/items whose body has no usable name
BadNamePost(t) ==
    /\ th[t].method = "POST" /\ th[t].path = "/api/items"
    /\ In(th[t].trace, "handler create_item")
    /\ (~th[t].body.valid \/ ~th[t].body.has_name \/ th[t].body.name = "")

Contacts(t) == {i \in 1..Len(th[t].trace) : th[t].trace[i] \in BackendStatements}

LookupItem(id) ==
    LET hit == FindById(items, id)
    IN IF hit = <<>> THEN NoItem
       ELSE IF IsMongo THEN _mongo_doc_to_item(hit[1])
       ELSE _item_from_row(hit[1])

\* C9: for every Item that create_item has returned, get_item_by_id with its
\* id yields an Item with that id, the same name and non-null id and
\* createdAt, whatever other create_item calls ran.
C9_RoundTrip ==
    \A r \in returned :
       LET got == LookupItem(r.id)
       IN /\ got # NoItem
          /\ got.id = r.id /\ got.name = r.name
          /\ got.id # 0 /\ ~got.createdAt.null

Ids(rows) == {rows[i].id : i \in 1..Len(rows)}

\* C10: in the document-store adapter the read of create_item sees the
\* largest id (0 for an empty collection) and the insert stores that id
\* plus one; when no other insert came between the read and the insert, the
\* new id is larger than every stored id.
C10_MongoNextId ==
    [][\A t \in Threads :
          /\ (th[t].pc = "_mongo_create_item" /\ th'[t].pc = "_mongo_create_item_insert")
                => th'[t].last = MaxIdOf(items)
          /\ (th[t].pc = "_mongo_create_item_insert" /\ th'[t] # th[t]
                /\ items' # items) =>
                LET doc == items'[Len(items')]
                IN /\ items' = Append(items, doc)
                   /\ doc.id = IF th[t].last = 0 THEN 1 ELSE th[t].last + 1
                   /\ th[t].seen = Len(items) =>
                         /\ \A i \in Ids(items) : i < doc.id
                         /\ doc.id = IF items = <<>> THEN 1 ELSE MaxIdOf(items) + 1]_vars

\* two concurrent create_item calls stored two documents with the same id
C10_Witness ==
    /\ IsMongo
    /\ \E i, j \in 1..Len(items) : i # j /\ items[i].id = items[j].id

\* thread t serves GET /api/items or a POST /api/items with a name, the gate
\* let it through, and the route's db function met an unavailable backend
UnavailableAfterGate(t) ==
    /\ th[t].path = "/api/items"
    /\ In(th[t].trace, "ping=True")
    /\ HandlerRan(t)
    /\ th[t].pc = "respond"
    /\ th[t].result.kind = "raise"

\* C11: a request for GET /api/items, or POST /api/items with a valid name,
\* that passed the gate and whose backend became unavailable before the
\* route's own database operation is answered with 503, not with 500.
C11_Unavailable503 ==
    \A t \in Threads : UnavailableAfterGate(t) => th[t].response.status = 503

\* thread t holds a connection: it is between its checkout and its return
Holding(t) ==
    th[t].pc \in {"conn_ensure_exec", "conn_ensure_put", "conn_exec",
                  "conn_select", "conn_put"}

\* no relational operation is under way
NoOpRunning == \A t \in Threads : th[t].pc \in {"idle", "return"}

\* C12: the connections checked out of the pool (relational-A) and the open
\* connections (relational-B) are exactly those of the operations between
\* their checkout and their return, so that none is held once the operations
\* have returned or raised; the pool never has more than 10 checked out.
C12_NoLeak ==
    LET held == Cardinality({t \in Threads : Holding(t)})
    IN /\ conns.used = (IF IsPg THEN held ELSE 0)
       /\ conns.open = (IF IsMysql THEN held ELSE 0)
       /\ conns.used <= maxconn
       /\ NoOpRunning => conns.used = 0 /\ conns.open = 0

\* create_item raised out of its nested ensure-items step on relational-A
\* after the statement failed, and its connection is back in the pool
C12_Witness ==
    /\ IsPg
    /\ NoOpRunning
    /\ conns.used = 0
    /\ \E t \in Threads :
          /\ th[t].pc = "return" /\ th[t].op = "create_item"
          /\ th[t].result.kind = "raise"
          /\ th[t].trace = <<"getconn", "CREATE TABLE IF NOT EXISTS", "putconn">>

====
